---- MODULE Spec2Model ----
(***************************************************************************)
(* NaviStore path-optimization engine (server/api_navimall).               *)
(*                                                                         *)
(* Spec: the on-disk layout store (current-hash pointer, <hash>.h5 layout  *)
(* files, <hash>.svg and <hash>_metadata.json files, temp_<filename>       *)
(* upload files) and the requests that use it: upload_layout and           *)
(* optimize_path.  The code takes no lock and every request works on the   *)
(* shared directories, so requests served at the same time interleave at   *)
(* their file-system calls; each action below is one such call together    *)
(* with the local computation that follows it.                             *)
(***************************************************************************)
EXTENDS Integers, Sequences, FiniteSets, TLC

VARIABLES ptr, layouts, svg, meta, temp, loc, calls, before, mode, pipe

vars == <<ptr, layouts, svg, meta, temp, loc, calls, before, mode, pipe>>

\* Bound: the number of requests started in a behaviour.
MaxCalls == 4

\* The requests that may be in progress at the same time.
Workers == {"w1", "w2"}

(***************************************************************************)
(* File contents.                                                          *)
(***************************************************************************)
Absent == [kind |-> "absent"]
\* A file just opened for writing: truncated, nothing written yet.
Empty == [kind |-> "empty"]
\* Bytes that are not an HDF5 container.
Junk == [kind |-> "junk"]
\* An HDF5 container: the 'layout' dataset (a numpy array: shape and
\* row-major data) and the 'edge_length' dataset.
H5(shape, data, edge) ==
    [kind |-> "h5", shape |-> shape, data |-> data, edge_length |-> edge]

None == <<>>

\* Well-formed payloads: two 1x2 grids, one of them with two edge lengths.
Layouts ==
    { H5(<<1, 2>>, <<0, 0>>, 100),
      H5(<<1, 2>>, <<0, 0>>, 200),
      H5(<<1, 2>>, <<0, -1>>, 100) }

\* All uploaded payloads: also a grid with an illegal cell code, a
\* one-dimensional layout array, and junk.
Payloads ==
    Layouts \cup { H5(<<1, 2>>, <<0, 3>>, 100), H5(<<2>>, <<0, -1>>, 100), Junk }

\* Client file names of an upload.
Filenames ==
    { [stem |-> "a", ext |-> ".h5"],
      [stem |-> "a", ext |-> ".txt"] }

\* POI lists of an optimize_path request (physical coordinates, cm).
Requests ==
    { <<>>,
      << <<50, 250>> >>,
      << <<50, 50>>, <<50, 150>> >>,
      << <<50, 50>>, <<50, 250>> >> }

(***************************************************************************)
(* utils.load_layout_from_h5                                               *)
(***************************************************************************)
valid_cells == {0, 1, -1, 2}

\* TRUE iff load_layout_from_h5 returns (layout, edge_length, zones) for a
\* file with content c; otherwise it raises (FileNotFoundError for a missing
\* file, ValueError for anything else).
load_layout_from_h5_ok(c) ==
    /\ c.kind = "h5"
    /\ \A i \in DOMAIN c.data : c.data[i] \in valid_cells

(***************************************************************************)
(* StoreLayoutManager._compute_layout_hash                                 *)
(***************************************************************************)
\* numpy tobytes() of an int8 array: the cells in row-major order, each as
\* one two's-complement byte.  The shape is not part of the bytes.
tobytes(layout) == [i \in DOMAIN layout.data |-> layout.data[i] % 256]

\* XXH3-64 is taken to be collision-free: a digest is represented by the byte
\* string it was computed from.
xxh3_64_hexdigest(bytes) == bytes

\* The manager hashes self.layout only; self.edge_length is not hashed.
compute_layout_hash(layout) == xxh3_64_hexdigest(tobytes(layout))

Hashes == { compute_layout_hash(p) : p \in { q \in Payloads : load_layout_from_h5_ok(q) } }

(***************************************************************************)
(* utils.save_hash_to_json / load_hash_from_json                           *)
(***************************************************************************)
HashJson(h) == [kind |-> "json", layout_hash |-> h]

load_hash_from_json(c) == IF c.kind = "json" THEN c.layout_hash ELSE None

(***************************************************************************)
(* StoreLayoutManager.needs_svg_update, layout_svg_generator               *)
(***************************************************************************)
needs_svg_update(previous_hash, current_hash) ==
    IF previous_hash = None THEN TRUE ELSE current_hash # previous_hash

\* load_and_generate_svg succeeds on a loadable two-dimensional layout
\* ("height, width = layout_array.shape").
svg_ok(c) == load_layout_from_h5_ok(c) /\ Len(c.shape) = 2

\* _create_layer_structure: the ids of the layer groups, in the order in
\* which ET.SubElement appends them to the root of the document.
create_layer_structure ==
    <<"background-layer", "grid-layer", "obstacles-layer", "shelves-layer",
      "poi-layer", "zones-layer", "annotations-layer">>

\* The SVG document: its physical size, its layer groups and the cells it
\* draws.
SvgOf(c) ==
    [kind |-> "svg", width |-> c.shape[2] * c.edge_length,
     height |-> c.shape[1] * c.edge_length, layers |-> create_layer_structure,
     cells |-> c.data]

MetaOf(c) == [kind |-> "meta", edge_length |-> c.edge_length, shape |-> c.shape]

(***************************************************************************)
(* POIMapper                                                               *)
(***************************************************************************)
real_world_to_grid_coords(p, edge_length) ==
    <<p[1] \div edge_length, p[2] \div edge_length>>

\* _validate_grid_bounds: unpacks a two-dimensional shape, then checks rows
\* and columns.
validate_grid_bounds_ok(layout, cells) ==
    /\ Len(layout.shape) = 2
    /\ \A i \in DOMAIN cells :
          /\ cells[i][1] >= 0 /\ cells[i][1] < layout.shape[1]
          /\ cells[i][2] >= 0 /\ cells[i][2] < layout.shape[2]

CellAt(layout, rc) == layout.data[rc[1] * layout.shape[2] + rc[2] + 1]

check_obstacle_conflicts_ok(layout, cells) ==
    \A i \in DOMAIN cells : CellAt(layout, cells[i]) # -1

\* transform_coordinates returns the grid cells, or raises ValueError.
transform_coordinates_ok(layout, poi) ==
    LET cells == [i \in DOMAIN poi |-> real_world_to_grid_coords(poi[i], layout.edge_length)]
    IN  \/ Len(poi) = 0
        \/ /\ validate_grid_bounds_ok(layout, cells)
           /\ check_obstacle_conflicts_ok(layout, cells)

(***************************************************************************)
(* Requests in progress.                                                   *)
(***************************************************************************)
\* An open file object: where the inode it refers to is now linked.
NoFile == [at |-> "none"]
AtTemp(f) == [at |-> "temp", name |-> f]
AtLayout(h) == [at |-> "layout", hash |-> h]
Orphan == [at |-> "orphan"]

NoResult == [status |-> 0, detail |-> "", updated |-> FALSE, layout_hash |-> None,
             svg_updated |-> FALSE]

Result(status, detail, updated, h, svg_updated) ==
    [status |-> status, detail |-> detail, updated |-> updated, layout_hash |-> h,
     svg_updated |-> svg_updated]

\* The local variables of a request.
Idle ==
    [pc |-> "idle", op |-> "none", filename |-> [stem |-> "", ext |-> ""],
     content |-> Absent, buffer |-> NoFile, layout |-> Absent,
     previous_hash |-> None, poi |-> <<>>, mapped |-> FALSE,
     svg_layout |-> Absent, result |-> NoResult]

\* Worker w moves to r; open file objects of the other requests follow the
\* inode they refer to (Rt).
Step(w, r, Rt(_)) ==
    loc' = [v \in Workers |->
              IF v = w THEN r ELSE [loc[v] EXCEPT !.buffer = Rt(@)]]

Same(b) == b

\* os.remove(temp_<f>) / os.remove(<h>.h5): the inode is unlinked.
Unlinked(target, b) == IF b = target THEN Orphan ELSE b

\* The request has its response; the file name and the payload are dropped.
Done(l, res) ==
    [l EXCEPT !.pc = "done", !.result = res, !.filename = Idle.filename,
              !.content = Absent, !.buffer = NoFile]

TempFiles == { f \in Filenames : f.ext = ".h5" }

\* The files the claims speak of, as one value.
Store == [ptr |-> ptr, layouts |-> layouts, svg |-> svg, meta |-> meta]

\* The computation of one optimize_path request after its layout is loaded
\* (crud_path_optimization.py lines 149-252), before it has any input.
NoPipe ==
    [pc |-> "none", layout |-> Absent, poi |-> <<>>, distance_threshold |-> 0,
     algorithm |-> "", diagonal_movement |-> FALSE, include_return_to_start |-> FALSE,
     original_layout |-> Absent, error |-> "", grid_with_poi |-> <<>>,
     poi_coords |-> <<>>, solver_algorithm |-> "", i |-> 0, j |-> 0,
     path_matrix |-> <<>>, distance_matrix |-> <<>>, computed_path_matrix |-> <<>>,
     stats |-> [paths_computed |-> 0, paths_failed |-> 0, paths_skipped_threshold |-> 0],
     arc_cost |-> <<>>, route |-> <<>>, unvisited |-> {}, visiting_order |-> <<>>,
     fallback_stats |-> [fallback_calls |-> 0, fallback_successes |-> 0,
                         fallback_failures |-> 0],
     complete_path |-> <<>>, complete_path_real |-> <<>>, total_distance |-> 0,
     response |-> <<>>]

\* No request is in progress.
Quiet ==
    /\ temp = [f \in TempFiles |-> Absent]
    /\ loc = [w \in Workers |-> Idle]
    /\ calls = 0
    /\ before = Store

\* The store after _ensure_directories on a new installation.
EmptyStore ==
    /\ ptr = Absent
    /\ layouts = [h \in Hashes |-> Absent]
    /\ svg = [h \in Hashes |-> Absent]
    /\ meta = [h \in Hashes |-> Absent]

\* A store that two overlapping uploads of layout c leave behind: the first
\* renames the temp file the second has just truncated, saves the pointer and
\* fails to generate the SVG; the second writes c through its open buffer and
\* fails to load the temp file.  The pointer and <hash>.h5 are in place and
\* <hash>.svg is not.
PointerWithoutSvg ==
    \E c \in Layouts :
        /\ ptr = HashJson(compute_layout_hash(c))
        /\ layouts = [h \in Hashes |-> IF h = compute_layout_hash(c) THEN c ELSE Absent]
        /\ svg = [h \in Hashes |-> Absent]
        /\ meta = [h \in Hashes |-> Absent]

\* Requests served at the same time, uploading well-formed layouts.
Init == EmptyStore /\ Quiet /\ mode = "concurrent" /\ pipe = NoPipe

\* Requests served one after the other, uploading any payload; before is the
\* store as the request in progress found it.
InitSeq ==
    (EmptyStore \/ PointerWithoutSvg) /\ Quiet /\ mode = "sequential" /\ pipe = NoPipe

Uploads == IF mode = "sequential" THEN Payloads ELSE Layouts

\* A request arrives at worker w.
Arrive(w) ==
    /\ loc[w].pc = "idle"
    /\ calls < MaxCalls
    /\ calls' = calls + 1
    /\ mode = "sequential" => \A v \in Workers : loc[v].pc = "idle"
    /\ before' = IF mode = "sequential" THEN Store ELSE before
    /\ UNCHANGED <<mode, pipe>>

\* A request in progress at worker w takes a step.
Go(w, pc) ==
    /\ loc[w].pc = pc
    /\ UNCHANGED <<calls, before, mode, pipe>>

(***************************************************************************)
(* StoreLayoutManager.upload_layout                                        *)
(***************************************************************************)
\* Lines 195-206: the request arrives, the file name is checked, and
\* open(temp_path, "wb") creates or truncates temp_<filename>.
UploadStart(w) ==
    /\ Arrive(w)
    /\ \E f \in Filenames, c \in Uploads :
          LET l == [Idle EXCEPT !.op = "upload", !.filename = f, !.content = c]
          IN  IF f.ext # ".h5"
              THEN /\ Step(w, Done(l, Result(422, "File must be in HDF5 format (.h5)",
                                             FALSE, None, FALSE)), Same)
                   /\ UNCHANGED temp
              ELSE /\ temp' = [temp EXCEPT ![f] = Empty]
                   /\ Step(w, [l EXCEPT !.pc = "write", !.buffer = AtTemp(f)], Same)
    /\ UNCHANGED <<ptr, layouts, svg, meta>>

\* Lines 207-208: after "await layout_file.read()" the payload is written
\* through the open file object and the file is closed.
UploadWrite(w) ==
    LET l == loc[w]
        b == l.buffer
    IN
    /\ Go(w, "write")
    /\ temp' = IF b.at = "temp" THEN [temp EXCEPT ![b.name] = l.content] ELSE temp
    /\ layouts' = IF b.at = "layout" THEN [layouts EXCEPT ![b.hash] = l.content]
                  ELSE layouts
    /\ Step(w, [l EXCEPT !.pc = "load", !.buffer = NoFile], Same)
    /\ UNCHANGED <<ptr, svg, meta>>

\* Lines 210-217: load_layout_from_h5(temp_path); on failure the temp file is
\* removed and the request ends with 422.
UploadLoad(w) ==
    LET l == loc[w]
        c == temp[l.filename]
    IN
    /\ Go(w, "load")
    /\ IF load_layout_from_h5_ok(c)
       THEN /\ Step(w, [l EXCEPT !.pc = "readptr", !.layout = c], Same)
            /\ UNCHANGED temp
       ELSE /\ temp' = [temp EXCEPT ![l.filename] = Absent]
            /\ Step(w, Done(l, Result(422, "Invalid HDF5 file", FALSE, None, FALSE)),
                    LAMBDA b : Unlinked(AtTemp(l.filename), b))
    /\ UNCHANGED <<ptr, layouts, svg, meta>>

\* As UploadReadHash, but the upload is stored whatever the previous hash is.
UploadReadHashNoCompare(w) ==
    LET l == loc[w] IN
    /\ Go(w, "readptr")
    /\ Step(w, [l EXCEPT !.previous_hash = load_hash_from_json(ptr), !.pc = "remove"],
            Same)
    /\ UNCHANGED <<ptr, layouts, svg, meta, temp>>

\* Lines 219-239: previous_hash = load_hash_from_json(hash_file_path); the
\* manager computes the hash of the loaded layout and the two are compared.
UploadReadHash(w) ==
    LET l == loc[w]
        previous_hash == load_hash_from_json(ptr)
    IN
    /\ Go(w, "readptr")
    /\ Step(w, [l EXCEPT !.previous_hash = previous_hash,
                         !.pc = IF previous_hash = compute_layout_hash(l.layout)
                                THEN "identical" ELSE "remove"], Same)
    /\ UNCHANGED <<ptr, layouts, svg, meta, temp>>

\* Lines 240-253: an upload identical to the current layout removes the temp
\* file and returns updated=False.
UploadIdentical(w) ==
    LET l == loc[w] IN
    /\ Go(w, "identical")
    /\ temp' = [temp EXCEPT ![l.filename] = Absent]
    /\ Step(w, Done(l, Result(200, "Uploaded layout identical to existing layout.",
                              FALSE, compute_layout_hash(l.layout), FALSE)),
            LAMBDA b : Unlinked(AtTemp(l.filename), b))
    /\ UNCHANGED <<ptr, layouts, svg, meta>>

\* Lines 255-257: an existing <hash>.h5 is removed.
UploadRemovePermanent(w) ==
    LET l == loc[w]
        h == compute_layout_hash(l.layout)
    IN
    /\ Go(w, "remove")
    /\ layouts' = [layouts EXCEPT ![h] = Absent]
    /\ Step(w, [l EXCEPT !.pc = "rename"], LAMBDA b : Unlinked(AtLayout(h), b))
    /\ UNCHANGED <<ptr, svg, meta, temp>>

\* Line 258: os.rename(temp_path, permanent_path).  A missing temp file raises
\* FileNotFoundError, which ends the request with 500.
UploadRename(w) ==
    LET l == loc[w]
        h == compute_layout_hash(l.layout)
        f == l.filename
    IN
    /\ Go(w, "rename")
    /\ IF temp[f] = Absent
       THEN /\ Step(w, Done(l, Result(500, "Upload failed", FALSE, None, FALSE)), Same)
            /\ UNCHANGED <<layouts, temp>>
       ELSE /\ layouts' = [layouts EXCEPT ![h] = temp[f]]
            /\ temp' = [temp EXCEPT ![f] = Absent]
            /\ Step(w, [l EXCEPT !.pc = "save"],
                    LAMBDA b : IF b = AtTemp(f) THEN AtLayout(h)
                               ELSE Unlinked(AtLayout(h), b))
    /\ UNCHANGED <<ptr, svg, meta>>

\* Lines 260-263 and 146: save_hash_to_json(manager.current_hash, ...); then
\* update_svg_if_needed generates, since needs_svg_update() holds whenever
\* the identical branch was not taken.
UploadSaveHash(w) ==
    LET l == loc[w]
        h == compute_layout_hash(l.layout)
    IN
    /\ Go(w, "save")
    /\ ptr' = HashJson(h)
    /\ Step(w, [l EXCEPT !.pc = "generate"], Same)
    /\ UNCHANGED <<layouts, svg, meta, temp>>

\* Lines 146-155 and 263-295: generate_svg_layout(permanent_path, svg_path),
\* the response, and the finally clause that removes temp_<filename>.
UploadGenerate(w) ==
    LET l == loc[w]
        h == compute_layout_hash(l.layout)
        c == layouts[h]
    IN
    /\ Go(w, "generate")
    /\ l.op = "upload"
    /\ temp' = [temp EXCEPT ![l.filename] = Absent]
    /\ IF svg_ok(c)
       THEN /\ svg' = [svg EXCEPT ![h] = SvgOf(c)]
            /\ meta' = [meta EXCEPT ![h] = MetaOf(c)]
            /\ Step(w, Done([l EXCEPT !.svg_layout = c],
                            Result(200, "Layout updated successfully.", TRUE, h, TRUE)),
                    LAMBDA b : Unlinked(AtTemp(l.filename), b))
       ELSE /\ Step(w, Done(l, Result(500, "Upload failed", FALSE, None, FALSE)),
                    LAMBDA b : Unlinked(AtTemp(l.filename), b))
            /\ UNCHANGED <<svg, meta>>
    /\ UNCHANGED <<ptr, layouts>>

(***************************************************************************)
(* crud_path_optimization._optimize_shopping_path                          *)
(***************************************************************************)
\* Lines 111-119: the request arrives and reads the current-hash pointer.
OptimizeStart(w) ==
    /\ Arrive(w)
    /\ \E poi \in Requests :
          LET l == [Idle EXCEPT !.op = "optimize", !.poi = poi,
                                !.previous_hash = load_hash_from_json(ptr)]
          IN  IF l.previous_hash = None
              THEN Step(w, Done(l, Result(422, "No store layout uploaded", FALSE, None,
                                          FALSE)), Same)
              ELSE Step(w, [l EXCEPT !.pc = "o_exists"], Same)
    /\ UNCHANGED <<ptr, layouts, svg, meta, temp>>

\* Lines 121-126: os.path.exists(layout_path).
OptimizeExists(w) ==
    LET l == loc[w] IN
    /\ Go(w, "o_exists")
    /\ IF layouts[l.previous_hash] = Absent
       THEN Step(w, Done(l, Result(422, "Store layout file not found", FALSE, None,
                                   FALSE)), Same)
       ELSE Step(w, [l EXCEPT !.pc = "o_load"], Same)
    /\ UNCHANGED <<ptr, layouts, svg, meta, temp>>

\* As OptimizeLoad, but the POIs are mapped before their number is checked.
OptimizeLoadMapsFirst(w) ==
    LET l == loc[w]
        c == layouts[l.previous_hash]
    IN
    /\ Go(w, "o_load")
    /\ IF ~load_layout_from_h5_ok(c)
       THEN Step(w, Done(l, Result(500, "Invalid store layout file", FALSE, None, FALSE)),
                 Same)
       ELSE IF ~transform_coordinates_ok(c, l.poi)
       THEN Step(w, Done([l EXCEPT !.layout = c, !.mapped = TRUE],
                         Result(500, "Internal Server Error", FALSE, None, FALSE)), Same)
       ELSE IF Len(l.poi) < 2
       THEN Step(w, Done([l EXCEPT !.layout = c, !.mapped = TRUE],
                         Result(422, "At least 2 POIs are required", FALSE, None, FALSE)),
                 Same)
       ELSE Step(w, [l EXCEPT !.pc = "o_svg", !.layout = c, !.mapped = TRUE], Same)
    /\ UNCHANGED <<ptr, layouts, svg, meta, temp>>

\* Lines 128-153: the layout is loaded, the POI count is checked, the manager
\* is built and the POIs are mapped (generate_grid raises ValueError, which
\* nothing catches, so the request ends with 500).
OptimizeLoad(w) ==
    LET l == loc[w]
        c == layouts[l.previous_hash]
    IN
    /\ Go(w, "o_load")
    /\ IF ~load_layout_from_h5_ok(c)
       THEN Step(w, Done(l, Result(500, "Invalid store layout file", FALSE, None, FALSE)),
                 Same)
       ELSE IF Len(l.poi) < 2
       THEN Step(w, Done([l EXCEPT !.layout = c],
                         Result(422, "At least 2 POIs are required", FALSE, None, FALSE)),
                 Same)
       ELSE IF ~transform_coordinates_ok(c, l.poi)
       THEN Step(w, Done([l EXCEPT !.layout = c, !.mapped = TRUE],
                         Result(500, "Internal Server Error", FALSE, None, FALSE)), Same)
       ELSE Step(w, [l EXCEPT !.pc = "o_svg", !.layout = c, !.mapped = TRUE], Same)
    /\ UNCHANGED <<ptr, layouts, svg, meta, temp>>

\* As OptimizeSvgCheck, but only the hashes decide, not the SVG file.
OptimizeSvgCheckByHashOnly(w) ==
    LET l == loc[w]
        h == compute_layout_hash(l.layout)
    IN
    /\ Go(w, "o_svg")
    /\ IF needs_svg_update(l.previous_hash, h)
       THEN Step(w, [l EXCEPT !.pc = "generate"], Same)
       ELSE Step(w, Done(l, Result(200, "", FALSE, h, FALSE)), Same)
    /\ UNCHANGED <<ptr, layouts, svg, meta, temp>>

\* Lines 155 and 140-153: update_svg_if_needed(layout_path) decides whether to
\* generate; if not, lines 156-252 build the response.
OptimizeSvgCheck(w) ==
    LET l == loc[w]
        h == compute_layout_hash(l.layout)
    IN
    /\ Go(w, "o_svg")
    /\ IF needs_svg_update(l.previous_hash, h) \/ svg[h] = Absent
       THEN Step(w, [l EXCEPT !.pc = "generate"], Same)
       ELSE Step(w, Done(l, Result(200, "", FALSE, h, FALSE)), Same)
    /\ UNCHANGED <<ptr, layouts, svg, meta, temp>>

\* Lines 148-149: generate_svg_layout(layout_path, svg_path) reads the layout
\* file again; then lines 156-252 build the response.
OptimizeGenerate(w) ==
    LET l == loc[w]
        h == compute_layout_hash(l.layout)
        c == layouts[l.previous_hash]
    IN
    /\ Go(w, "generate")
    /\ l.op = "optimize"
    /\ IF svg_ok(c)
       THEN /\ svg' = [svg EXCEPT ![h] = SvgOf(c)]
            /\ meta' = [meta EXCEPT ![h] = MetaOf(c)]
            /\ Step(w, Done([l EXCEPT !.svg_layout = c], Result(200, "", FALSE, h, TRUE)),
                    Same)
       ELSE /\ Step(w, Done(l, Result(500, "Internal Server Error", FALSE, None, FALSE)),
                    Same)
            /\ UNCHANGED <<svg, meta>>
    /\ UNCHANGED <<ptr, layouts, temp>>

\* The response has been sent.
Return(w) ==
    /\ Go(w, "done")
    /\ Step(w, Idle, Same)
    /\ UNCHANGED <<ptr, layouts, svg, meta, temp>>

Next ==
    \E w \in Workers :
        \/ UploadStart(w)
        \/ UploadWrite(w)
        \/ UploadLoad(w)
        \/ UploadReadHash(w)
        \/ UploadIdentical(w)
        \/ UploadRemovePermanent(w)
        \/ UploadRename(w)
        \/ UploadSaveHash(w)
        \/ UploadGenerate(w)
        \/ OptimizeStart(w)
        \/ OptimizeExists(w)
        \/ OptimizeLoad(w)
        \/ OptimizeSvgCheck(w)
        \/ OptimizeGenerate(w)
        \/ Return(w)

Spec == Init /\ [][Next]_vars

SeqSpec == InitSeq /\ [][Next]_vars

(***************************************************************************)
(* Properties.                                                             *)
(***************************************************************************)
\* PointerWithoutSvg describes stores that requests served at the same time
\* reach from the empty store (violated under Spec, as it should be).
PointerWithoutSvgNotReached ==
    ~(PointerWithoutSvg /\ temp = [f \in TempFiles |-> Absent]
                        /\ loc = [w \in Workers |-> Idle])

UploadDone(w) == loc[w].pc = "done" /\ loc[w].op = "upload"

OptimizeDone(w) == loc[w].pc = "done" /\ loc[w].op = "optimize"

\* The hash the pointer held when the request in progress arrived (SeqSpec).
HashBefore == load_hash_from_json(before.ptr)

\* C1: an upload that finds the pointer holding H and whose loaded layout
\* hashes to H returns success with updated=false and layout_hash=H, and the
\* pointer, the layout files, the SVG files and the metadata files are as the
\* request found them.
C1_IdenticalUploadLeavesStore ==
    \A w \in Workers :
        ( /\ UploadDone(w)
          /\ loc[w].layout # Absent
          /\ HashBefore = compute_layout_hash(loc[w].layout) )
        => /\ loc[w].result.status = 200
           /\ loc[w].result.updated = FALSE
           /\ loc[w].result.layout_hash = HashBefore
           /\ Store = before

C1_Witness ==
    \E w \in Workers :
        /\ UploadDone(w)
        /\ loc[w].layout # Absent
        /\ HashBefore = compute_layout_hash(loc[w].layout)
        /\ before.svg[HashBefore] # Absent
        /\ loc[w].result.updated = FALSE

\* C2: whenever the pointer file holds a hash H, the layout file <H>.h5
\* exists.
C2_PointerHasFile ==
    load_hash_from_json(ptr) # None => layouts[load_hash_from_json(ptr)] # Absent

\* C3: every stored layout file <h>.h5 has a content whose computed layout
\* hash is h.
C3_FileHashesToName ==
    \A h \in Hashes :
        layouts[h] # Absent
        => /\ load_layout_from_h5_ok(layouts[h])
           /\ compute_layout_hash(layouts[h]) = h

\* C4: the storage key depends on the grid and on the edge length: an
\* accepted upload whose layout has the shape of the current layout but
\* another cell or another edge length gets another hash and is stored as a
\* new layout.
C4_HashKeysGridAndEdge ==
    \A w \in Workers :
        ( /\ UploadDone(w)
          /\ loc[w].result.status = 200
          /\ HashBefore # None
          /\ load_layout_from_h5_ok(before.layouts[HashBefore])
          /\ before.layouts[HashBefore].shape = loc[w].layout.shape
          /\ before.layouts[HashBefore] # loc[w].layout )
        => /\ loc[w].result.layout_hash # HashBefore
           /\ loc[w].result.updated = TRUE

\* C5: an upload that ends in an error (422 or 500) leaves the pointer and
\* the stored layout files as it found them.
C5_FailedUploadLeavesStore ==
    \A w \in Workers :
        (UploadDone(w) /\ loc[w].result.status \in {422, 500})
        => (ptr = before.ptr /\ layouts = before.layouts)

\* C6: no two requests generate the SVG of the same hash at the same time
\* when that SVG is absent.
C6_OneGenerationInFlight ==
    \A v, w \in Workers :
        ( /\ v # w
          /\ loc[v].pc = "generate"
          /\ loc[w].pc = "generate"
          /\ compute_layout_hash(loc[v].layout) = compute_layout_hash(loc[w].layout) )
        => svg[compute_layout_hash(loc[v].layout)] # Absent

\* C7: when upload_layout returns success, the SVG file of the returned
\* layout_hash exists.
C7_SuccessfulUploadHasSvg ==
    \A w \in Workers :
        (UploadDone(w) /\ loc[w].result.status = 200)
        => svg[loc[w].result.layout_hash] # Absent

\* C8: optimize_path checks the pointer, then the layout file, then the number
\* of POIs, then maps the POIs: without a pointer the request ends with
\* "No store layout uploaded" whatever its POIs; with fewer than two POIs on a
\* loaded layout it ends with "At least 2 POIs are required", no POI mapped
\* and no SVG generated by it; POIs are mapped only for two or more POIs.
C8_CheckOrder ==
    \A w \in Workers :
        OptimizeDone(w) =>
            LET l == loc[w] IN
            /\ l.previous_hash = None
               => (l.result.status = 422 /\ l.result.detail = "No store layout uploaded")
            /\ (l.previous_hash # None /\ l.layout = Absent)
               => l.result.detail \in {"Store layout file not found",
                                       "Invalid store layout file"}
            /\ (l.layout # Absent /\ Len(l.poi) < 2)
               => /\ l.result.status = 422
                  /\ l.result.detail = "At least 2 POIs are required"
                  /\ ~l.mapped
                  /\ l.svg_layout = Absent
                  /\ ~l.result.svg_updated
            /\ l.mapped => (l.layout # Absent /\ Len(l.poi) >= 2)

C8_Witness ==
    \E w \in Workers :
        /\ OptimizeDone(w)
        /\ loc[w].layout # Absent
        /\ Len(loc[w].poi) = 1
        /\ ~transform_coordinates_ok(loc[w].layout, loc[w].poi)
        /\ svg[compute_layout_hash(loc[w].layout)] = Absent

\* C9: an optimize_path request with a POI outside the grid or on an obstacle
\* cell is answered with status 422.
C9_PoiErrorIs422 ==
    \A w \in Workers :
        ( /\ OptimizeDone(w)
          /\ loc[w].layout # Absent
          /\ Len(loc[w].poi) >= 2
          /\ ~transform_coordinates_ok(loc[w].layout, loc[w].poi) )
        => loc[w].result.status = 422

\* C10: an optimize_path request that has loaded the layout of the hash it
\* read from the pointer and mapped its POIs succeeds, reports the hash of
\* that layout, and any SVG it generates is drawn from that layout, whatever
\* uploads do meanwhile.
C10_SnapshotOfLoadedLayout ==
    \A w \in Workers :
        ( /\ OptimizeDone(w)
          /\ loc[w].mapped
          /\ compute_layout_hash(loc[w].layout) = loc[w].previous_hash
          /\ transform_coordinates_ok(loc[w].layout, loc[w].poi) )
        => /\ loc[w].result.status = 200
           /\ loc[w].result.layout_hash = compute_layout_hash(loc[w].layout)
           /\ loc[w].result.svg_updated => loc[w].svg_layout = loc[w].layout

(***************************************************************************)
(* The computation of optimize_path on a loaded layout                     *)
(* (crud_path_optimization._optimize_shopping_path, lines 149-252).        *)
(* It works on values in memory only; the store is left alone.             *)
(***************************************************************************)
storeVars == <<ptr, layouts, svg, meta, temp, loc, calls, before, mode>>

\* Loaded layouts: 2x3 grids, open, with a shelf, with a wall, with an
\* obstacle that can be walked around, and an open one with 25 cm cells.
PipeLayouts ==
    { H5(<<2, 3>>, <<0, 0, 0, 0, 0, 0>>, 100),
      H5(<<2, 3>>, <<0, 2, 0, 0, 0, 0>>, 100),
      H5(<<2, 3>>, <<0, -1, 0, 0, -1, 0>>, 100),
      H5(<<2, 3>>, <<0, -1, 0, 0, 0, 0>>, 100),
      H5(<<2, 3>>, <<0, 0, 0, 0, 0, 0>>, 25) }

\* POI lists of a request (cm); the request has at least two POIs (line 134).
PoiLists ==
    { << <<50, 50>>, <<50, 250>> >>,
      << <<50, 50>>, <<50, 150>> >>,
      << <<50, 50>>, <<150, 250>>, <<50, 250>> >>,
      << <<-50, 50>>, <<50, 50>> >>,
      << <<10, 10>>, <<10, 60>> >>,
      << <<50, 150>>, <<50, 350>> >>,
      << <<10, 10>>, <<30, 60>> >> }

\* request.pathfinding_algorithm: any string; "jps" is not supported.
Algorithms == {"astar", "dijkstra", "best_first", "jps"}

\* request.distance_threshold (cm): the default, two cells and a cell and a
\* half of the layouts with 100 cm cells.
Thresholds == {2000, 200, 150}

CellIndex(layout, rc) == rc[1] * layout.shape[2] + rc[2] + 1

grid_coords_of(layout, poi) ==
    [i \in DOMAIN poi |-> real_world_to_grid_coords(poi[i], layout.edge_length)]

\* As transform_coordinates, but each POI is checked in turn, bounds and then
\* obstacle, and the first POI that fails decides the error.
transform_coordinates_per_poi(layout, poi) ==
    LET cells == grid_coords_of(layout, poi)
        InBounds(i) == validate_grid_bounds_ok(layout, <<cells[i]>>)
        Bad(i) == ~InBounds(i) \/ CellAt(layout, cells[i]) = -1
        first == CHOOSE i \in DOMAIN poi : Bad(i) /\ \A k \in 1..(i - 1) : ~Bad(k)
    IN  IF \A i \in DOMAIN poi : ~Bad(i)
        THEN [error |-> "", grid_coords |-> cells]
        ELSE IF ~InBounds(first)
        THEN [error |-> "out of bounds", grid_coords |-> <<>>]
        ELSE [error |-> "conflicts with an obstacle", grid_coords |-> <<>>]

\* POIMapper.transform_coordinates: the grid cells of the POIs, or the
\* ValueError raised (then nothing is returned).
transform_coordinates(layout, poi) ==
    LET cells == grid_coords_of(layout, poi) IN
    IF Len(poi) = 0
    THEN [error |-> "", grid_coords |-> <<>>]
    ELSE IF ~validate_grid_bounds_ok(layout, cells)
    THEN [error |-> "out of bounds", grid_coords |-> <<>>]
    ELSE IF ~check_obstacle_conflicts_ok(layout, cells)
    THEN [error |-> "conflicts with an obstacle", grid_coords |-> <<>>]
    ELSE [error |-> "", grid_coords |-> cells]

\* As generate_grid, but the marker is written at [col, row].
generate_grid_swapped(original_layout, grid_coords) ==
    [k \in DOMAIN original_layout.data |->
        IF \E i \in DOMAIN grid_coords :
              CellIndex(original_layout, <<grid_coords[i][2], grid_coords[i][1]>>) = k
        THEN 1 ELSE original_layout.data[k]]

\* POIMapper.generate_grid, lines 141-146: a copy of original_layout with
\* code 1 at the cells of the POIs.
generate_grid(original_layout, grid_coords) ==
    [k \in DOMAIN original_layout.data |->
        IF \E i \in DOMAIN grid_coords : CellIndex(original_layout, grid_coords[i]) = k
        THEN 1 ELSE original_layout.data[k]]

\* A request with its layout loaded and at least two POIs.
InitPipe ==
    /\ EmptyStore /\ Quiet /\ mode = "pipeline"
    /\ \E l \in PipeLayouts, p \in PoiLists, a \in Algorithms, t \in Thresholds,
          d \in BOOLEAN, r \in BOOLEAN :
          \* best-first search may return any path: it is run between two
          \* POIs with straight steps, where the paths are few.
          /\ a = "best_first" => (Len(p) = 2 /\ ~d)
          /\ pipe = [NoPipe EXCEPT !.pc = "map", !.layout = l, !.poi = p,
                                !.distance_threshold = t, !.algorithm = a,
                                !.diagonal_movement = d, !.include_return_to_start = r]

\* Lines 149-153: POIMapper(layout, ...) copies the layout; generate_grid()
\* and get_poi_grid_coordinates() map the POIs.  A ValueError ends the
\* request.
GenerateGrid ==
    /\ pipe.pc = "map"
    /\ LET t == transform_coordinates(pipe.layout, pipe.poi) IN
       IF t.error # ""
       THEN pipe' = [pipe EXCEPT !.pc = "failed", !.error = t.error,
                                 !.original_layout = pipe.layout]
       ELSE pipe' = [pipe EXCEPT !.pc = "solver",
                                 !.original_layout = pipe.layout,
                                 !.grid_with_poi = generate_grid(pipe.layout, t.grid_coords),
                                 !.poi_coords = t.grid_coords]
    /\ UNCHANGED storeVars

(***************************************************************************)
(* PathfindingSolver                                                       *)
(***************************************************************************)
\* _create_finder knows these algorithms and raises ValueError for any other.
available_algorithms == {"astar", "dijkstra", "best_first"}

\* np.inf, the distance of a pair without a path.
Inf == -1

RECURSIVE ISqrtIn(_, _, _)
\* The largest s in lo..hi with s * s <= n.
ISqrtIn(n, lo, hi) ==
    IF lo = hi THEN lo
    ELSE LET mid == (lo + hi + 1) \div 2 IN
         IF mid * mid <= n THEN ISqrtIn(n, mid, hi) ELSE ISqrtIn(n, lo, mid - 1)

\* utils.euclidean_distance, in thousandths of a cell side, rounded down.
\* Between two cells of a row or of a column the root is the difference
\* itself, which is computed as such to keep the numbers small.
euclidean_distance(p1, p2) ==
    LET d2 == (p1[1] - p2[1]) * (p1[1] - p2[1]) + (p1[2] - p2[2]) * (p1[2] - p2[2])
        Abs(a) == IF a >= 0 THEN a ELSE -a
    IN  IF p1[1] = p2[1] THEN 1000 * Abs(p1[2] - p2[2])
        ELSE IF p1[2] = p2[2] THEN 1000 * Abs(p1[1] - p2[1])
        ELSE ISqrtIn(d2 * 1000000, 0, 1000 * (d2 + 1))

\* The cells of a grid of this shape, as (row, col).
CellsOf(shape) == { <<r, c>> : r \in 0..(shape[1] - 1), c \in 0..(shape[2] - 1) }

\* As Neighbours, but with diagonal steps whatever the flag says.
NeighboursWithDiagonals(shape, cell, diagonal_movement) ==
    { n \in CellsOf(shape) :
        LET dr == IF n[1] >= cell[1] THEN n[1] - cell[1] ELSE cell[1] - n[1]
            dc == IF n[2] >= cell[2] THEN n[2] - cell[2] ELSE cell[2] - n[2]
        IN  dr <= 1 /\ dc <= 1 /\ dr + dc >= 1 }

\* _create_finder lines 79-83: the neighbours of a cell the finder may step
\* to, with DiagonalMovement.never or DiagonalMovement.always.
Neighbours(shape, cell, diagonal_movement) ==
    { n \in CellsOf(shape) :
        LET dr == IF n[1] >= cell[1] THEN n[1] - cell[1] ELSE cell[1] - n[1]
            dc == IF n[2] >= cell[2] THEN n[2] - cell[2] ELSE cell[2] - n[2]
        IN  IF diagonal_movement THEN dr <= 1 /\ dc <= 1 /\ dr + dc >= 1
            ELSE dr + dc = 1 }

\* find_path line 116: walkable_matrix = (self.grid_array >= 0).astype(int)
walkable_matrix(grid_array) ==
    [k \in DOMAIN grid_array |-> IF grid_array[k] >= 0 THEN 1 ELSE 0]

RECURSIVE path_length(_)
\* compute_all_paths lines 211-213: the sum of the step lengths of a path.
path_length(path) ==
    IF Len(path) < 2 THEN 0
    ELSE euclidean_distance(path[1], path[2]) + path_length(Tail(path))

RECURSIVE SimplePaths(_, _, _, _, _)
\* The paths without a repeated cell that lead from the end of path to goal
\* over walkable cells, each step to a neighbour.
SimplePaths(layout, walkable, path, goal, diagonal_movement) ==
    LET last == path[Len(path)] IN
    IF last = goal THEN {path}
    ELSE UNION { SimplePaths(layout, walkable, Append(path, n), goal, diagonal_movement) :
                 n \in { m \in Neighbours(layout.shape, last, diagonal_movement) :
                           /\ walkable[CellIndex(layout, m)] = 1
                           /\ \A k \in DOMAIN path : path[k] # m } }

\* What finder.find_path(start_node, goal_node, grid) may return: for A* and
\* Dijkstra a path of least length, for best-first search some path; the
\* empty set when there is none.
FinderPaths(layout, walkable, start, goal, algorithm, diagonal_movement) ==
    LET all == SimplePaths(layout, walkable, <<start>>, goal, diagonal_movement) IN
    IF algorithm = "best_first" THEN all
    ELSE { p \in all : \A q \in all : path_length(p) <= path_length(q) }

\* PathfindingSolver.find_path, lines 111-163: the paths it may return, as
\* (row, col) cells; the empty set when it returns None.
find_path(layout, grid_array, start, goal, algorithm, diagonal_movement) ==
    LET walkable == walkable_matrix(grid_array) IN
    IF walkable[CellIndex(layout, start)] # 1 \/ walkable[CellIndex(layout, goal)] # 1
    THEN {}
    ELSE FinderPaths(layout, walkable, start, goal, algorithm, diagonal_movement)

\* The N x N matrix with value v everywhere.
Matrix(n, v) == [i \in 1..n |-> [j \in 1..n |-> v]]

\* As CreateSolver, but an algorithm _create_finder does not know ends the
\* request.
CreateSolverWithoutFallback ==
    /\ pipe.pc = "solver"
    /\ IF pipe.algorithm \in available_algorithms
       THEN pipe' = [pipe EXCEPT
                       !.pc = "paths", !.solver_algorithm = pipe.algorithm,
                       !.i = 1, !.j = 1,
                       !.distance_matrix = Matrix(Len(pipe.poi_coords), Inf),
                       !.path_matrix = Matrix(Len(pipe.poi_coords), None)]
       ELSE pipe' = [pipe EXCEPT !.pc = "failed", !.error = "unsupported algorithm"]
    /\ UNCHANGED storeVars

\* Lines 158-189: the solver is created with the algorithm of the request,
\* or with "astar" when _create_finder raises ValueError.
CreateSolver ==
    /\ pipe.pc = "solver"
    /\ pipe' = [pipe EXCEPT
                  !.pc = "paths",
                  !.solver_algorithm = IF pipe.algorithm \in available_algorithms
                                       THEN pipe.algorithm ELSE "astar",
                  !.i = 1, !.j = 1,
                  !.distance_matrix = Matrix(Len(pipe.poi_coords), Inf),
                  !.path_matrix = Matrix(Len(pipe.poi_coords), None)]
    /\ UNCHANGED storeVars

\* The loop of compute_all_paths moves to the next pair, or ends and returns
\* the matrices; computed_path_matrix keeps the path matrix as returned.
NextPair(p) ==
    IF p.j < Len(p.poi_coords) THEN [p EXCEPT !.j = p.j + 1]
    ELSE IF p.i < Len(p.poi_coords) THEN [p EXCEPT !.i = p.i + 1, !.j = 1]
    ELSE [p EXCEPT !.pc = "tsp", !.computed_path_matrix = p.path_matrix]

\* As ComputePair, but a pair at exactly the threshold is skipped too.
ComputePairSkipsAtThreshold ==
    LET i == pipe.i
        j == pipe.j
        start == pipe.poi_coords[i]
        goal == pipe.poi_coords[j]
        e == pipe.layout.edge_length
        d2 == (start[1] - goal[1]) * (start[1] - goal[1])
              + (start[2] - goal[2]) * (start[2] - goal[2])
        paths == find_path(pipe.layout, pipe.grid_with_poi, start, goal,
                           pipe.solver_algorithm, pipe.diagonal_movement)
    IN
    /\ pipe.pc = "paths"
    /\ IF i = j
       THEN pipe' = NextPair([pipe EXCEPT !.distance_matrix[i][j] = 0,
                                          !.path_matrix[i][j] = <<start>>])
       ELSE IF d2 * e * e >= pipe.distance_threshold * pipe.distance_threshold
       THEN pipe' = NextPair([pipe EXCEPT
                                !.distance_matrix[i][j] = 3 * euclidean_distance(start, goal),
                                !.stats.paths_skipped_threshold = @ + 1])
       ELSE IF paths = {}
       THEN pipe' = NextPair([pipe EXCEPT !.stats.paths_failed = @ + 1])
       ELSE \E path \in paths :
               pipe' = NextPair([pipe EXCEPT !.distance_matrix[i][j] = path_length(path),
                                             !.path_matrix[i][j] = path,
                                             !.stats.paths_computed = @ + 1])
    /\ UNCHANGED storeVars

\* As ComputePair, but a pair without a path ends the batch and the request.
ComputePairAbortsOnFailure ==
    LET i == pipe.i
        j == pipe.j
        start == pipe.poi_coords[i]
        goal == pipe.poi_coords[j]
        e == pipe.layout.edge_length
        d2 == (start[1] - goal[1]) * (start[1] - goal[1])
              + (start[2] - goal[2]) * (start[2] - goal[2])
        paths == find_path(pipe.layout, pipe.grid_with_poi, start, goal,
                           pipe.solver_algorithm, pipe.diagonal_movement)
    IN
    /\ pipe.pc = "paths"
    /\ IF i = j
       THEN pipe' = NextPair([pipe EXCEPT !.distance_matrix[i][j] = 0,
                                          !.path_matrix[i][j] = <<start>>])
       ELSE IF d2 * e * e > pipe.distance_threshold * pipe.distance_threshold
       THEN pipe' = NextPair([pipe EXCEPT
                                !.distance_matrix[i][j] = 3 * euclidean_distance(start, goal),
                                !.stats.paths_skipped_threshold = @ + 1])
       ELSE IF paths = {}
       THEN pipe' = [pipe EXCEPT !.pc = "failed", !.error = "no path",
                                 !.stats.paths_failed = @ + 1]
       ELSE \E path \in paths :
               pipe' = NextPair([pipe EXCEPT !.distance_matrix[i][j] = path_length(path),
                                             !.path_matrix[i][j] = path,
                                             !.stats.paths_computed = @ + 1])
    /\ UNCHANGED storeVars

\* compute_all_paths, lines 185-219: one pair (i, j) of the batch.
ComputePair ==
    LET i == pipe.i
        j == pipe.j
        start == pipe.poi_coords[i]
        goal == pipe.poi_coords[j]
        e == pipe.layout.edge_length
        d2 == (start[1] - goal[1]) * (start[1] - goal[1])
              + (start[2] - goal[2]) * (start[2] - goal[2])
        paths == find_path(pipe.layout, pipe.grid_with_poi, start, goal,
                           pipe.solver_algorithm, pipe.diagonal_movement)
    IN
    /\ pipe.pc = "paths"
    /\ IF i = j
       THEN pipe' = NextPair([pipe EXCEPT !.distance_matrix[i][j] = 0,
                                          !.path_matrix[i][j] = <<start>>])
       ELSE IF d2 * e * e > pipe.distance_threshold * pipe.distance_threshold
       THEN pipe' = NextPair([pipe EXCEPT
                                !.distance_matrix[i][j] = 3 * euclidean_distance(start, goal),
                                !.stats.paths_skipped_threshold = @ + 1])
       ELSE IF paths = {}
       THEN pipe' = NextPair([pipe EXCEPT !.stats.paths_failed = @ + 1])
       ELSE \E path \in paths :
               pipe' = NextPair([pipe EXCEPT !.distance_matrix[i][j] = path_length(path),
                                             !.path_matrix[i][j] = path,
                                             !.stats.paths_computed = @ + 1])
    /\ UNCHANGED storeVars

(***************************************************************************)
(* TSPSolver.  Locations are numbered from 0 as in the code; location k   *)
(* is row and column k + 1 of the matrix.                                  *)
(***************************************************************************)
\* Square distance matrices with a zero diagonal for one, two and three
\* locations, every other entry a short distance, a long one or infinite.
TspMatrices ==
    UNION { { m \in [1..n -> [1..n -> {0, 1000, 2000, Inf}]] :
                \A i, j \in 1..n : (m[i][j] = 0) <=> (i = j) } : n \in {1, 2, 3} }

n_locations(distance_matrix) == Len(distance_matrix)

isfinite(distance) == distance # Inf

\* The orders in which all of 0 .. n-1 are visited once, starting at 0.
RoutesFromDepot(n) ==
    { r \in [1..n -> 0..(n - 1)] :
        /\ r[1] = 0
        /\ \A a, b \in 1..n : a # b => r[a] # r[b] }

\* solve, lines 229-242: the matrix is validated, and solve raises the
\* ValueError of _validate_distance_matrix; OR-Tools returns the route
\* of its solution from depot 0 (lines 153-169); when OR-Tools is not
\* installed, raises or finds no solution, solve_with_nearest_neighbor()
\* starts (lines 185-190).
Solve ==
    /\ pipe.pc = "tsp"
    /\ IF \/ n_locations(pipe.distance_matrix) < 2
          \/ \E k \in 1..n_locations(pipe.distance_matrix) :
                ~isfinite(pipe.distance_matrix[k][k])
       THEN pipe' = [pipe EXCEPT !.pc = "raised", !.error = "ValueError"]
       ELSE \/ \E r \in RoutesFromDepot(n_locations(pipe.distance_matrix)) :
                  pipe' = [pipe EXCEPT !.pc = "assemble", !.visiting_order = r]
            \/ pipe' = [pipe EXCEPT
                          !.pc = "nearest_neighbor", !.route = <<0>>,
                          !.unvisited = 0..(n_locations(pipe.distance_matrix) - 1) \ {0}]
    /\ UNCHANGED storeVars

\* The locations the scan of lines 197-201 may end with: an unvisited
\* location at the least finite distance from the current one.
nearest_locations(distance_matrix, current_location, unvisited) ==
    { l \in unvisited :
        /\ isfinite(distance_matrix[current_location + 1][l + 1])
        /\ \A k \in unvisited :
              isfinite(distance_matrix[current_location + 1][k + 1])
              => distance_matrix[current_location + 1][l + 1]
                 <= distance_matrix[current_location + 1][k + 1] }

\* As NearestNeighborStep, but the tour ends when no unvisited location is
\* at a finite distance.
NearestNeighborStepStopsAtUnreachable ==
    LET current_location == pipe.route[Len(pipe.route)]
        nearest == nearest_locations(pipe.distance_matrix, current_location, pipe.unvisited)
    IN
    /\ pipe.pc = "nearest_neighbor"
    /\ IF pipe.unvisited = {} \/ nearest = {}
       THEN pipe' = [pipe EXCEPT !.pc = "assemble", !.visiting_order = pipe.route]
       ELSE \E l \in nearest :
               pipe' = [pipe EXCEPT !.route = Append(pipe.route, l),
                                    !.unvisited = pipe.unvisited \ {l}]
    /\ UNCHANGED storeVars

\* solve_with_nearest_neighbor, lines 192-216: one round of the while loop,
\* or the return of the route.
NearestNeighborStep ==
    LET current_location == pipe.route[Len(pipe.route)]
        nearest == nearest_locations(pipe.distance_matrix, current_location, pipe.unvisited)
    IN
    /\ pipe.pc = "nearest_neighbor"
    /\ IF pipe.unvisited = {}
       THEN pipe' = [pipe EXCEPT !.pc = "assemble", !.visiting_order = pipe.route]
       ELSE \E l \in (IF nearest = {} THEN pipe.unvisited ELSE nearest) :
               pipe' = [pipe EXCEPT !.route = Append(pipe.route, l),
                                    !.unvisited = pipe.unvisited \ {l}]
    /\ UNCHANGED storeVars

\* A TSPSolver with its distance matrix, about to run solve().
InitTsp ==
    /\ EmptyStore /\ Quiet /\ mode = "tsp"
    /\ \E m \in TspMatrices : pipe = [NoPipe EXCEPT !.pc = "tsp", !.distance_matrix = m]

NextTsp == Solve \/ NearestNeighborStep

\* solve() runs on its own thread of control: it keeps taking steps.
TspSpec == InitTsp /\ [][NextTsp]_vars /\ WF_vars(NextTsp)

\* C16: for every square matrix with a finite diagonal and N >= 2, solve
\* returns, and the list it returns holds each of 0 .. N-1 exactly once.
C16_SolveReturnsPermutation ==
    /\ [](pipe.pc = "assemble"
          => /\ Len(pipe.visiting_order) = n_locations(pipe.distance_matrix)
             /\ \A k \in 0..(n_locations(pipe.distance_matrix) - 1) :
                   Cardinality({ a \in DOMAIN pipe.visiting_order :
                                   pipe.visiting_order[a] = k }) = 1)
    /\ n_locations(pipe.distance_matrix) >= 2 => <>(pipe.pc = "assemble")

\* The nearest-neighbour tour has been returned for three locations of which
\* the last one visited was at an infinite distance.
C16_Witness ==
    /\ pipe.pc = "assemble"
    /\ pipe.route = pipe.visiting_order
    /\ Len(pipe.visiting_order) = 3
    /\ ~isfinite(pipe.distance_matrix[pipe.visiting_order[2] + 1][pipe.visiting_order[3] + 1])
    /\ pipe.distance_matrix[1][2] # pipe.distance_matrix[2][1]

(***************************************************************************)
(* FinalPathGenerator.  The generator works on the path matrix of the     *)
(* solver (the same list object) and on its own fallback counters; gen is *)
(* the record of the request that holds both.                              *)
(***************************************************************************)
\* As fallback_pathfinding, but a failure is not counted.
fallback_pathfinding_uncounted(gen, from_poi, to_poi) ==
    LET start == gen.poi_coords[from_poi + 1]
        goal == gen.poi_coords[to_poi + 1]
        called == [gen EXCEPT !.fallback_stats.fallback_calls = @ + 1]
        paths == IF gen.algorithm \in available_algorithms
                 THEN find_path(gen.layout, gen.grid_with_poi, start, goal,
                                gen.algorithm, gen.diagonal_movement)
                 ELSE {}
    IN  IF paths = {}
        THEN { [path |-> None, gen |-> called] }
        ELSE { [path |-> path,
                gen |-> [called EXCEPT !.fallback_stats.fallback_successes = @ + 1,
                                       !.path_matrix[from_poi + 1][to_poi + 1] = path]] :
               path \in paths }

\* _fallback_pathfinding, lines 95-155: the outcomes of one call.  The
\* temporary solver is built with the algorithm of the request, so an
\* algorithm that _create_finder does not know raises inside the try.
fallback_pathfinding(gen, from_poi, to_poi) ==
    LET start == gen.poi_coords[from_poi + 1]
        goal == gen.poi_coords[to_poi + 1]
        called == [gen EXCEPT !.fallback_stats.fallback_calls = @ + 1]
        paths == IF gen.algorithm \in available_algorithms
                 THEN find_path(gen.layout, gen.grid_with_poi, start, goal,
                                gen.algorithm, gen.diagonal_movement)
                 ELSE {}
    IN  IF paths = {}
        THEN { [path |-> None,
                gen |-> [called EXCEPT !.fallback_stats.fallback_failures = @ + 1]] }
        ELSE { [path |-> path,
                gen |-> [called EXCEPT !.fallback_stats.fallback_successes = @ + 1,
                                       !.path_matrix[from_poi + 1][to_poi + 1] = path]] :
               path \in paths }

\* _get_path_between_pois, lines 157-195.
get_path_between_pois(gen, from_poi, to_poi) ==
    IF from_poi = to_poi
    THEN { [path |-> <<gen.poi_coords[from_poi + 1]>>, gen |-> gen] }
    ELSE IF gen.path_matrix[from_poi + 1][to_poi + 1] = None
    THEN fallback_pathfinding(gen, from_poi, to_poi)
    ELSE { [path |-> gen.path_matrix[from_poi + 1][to_poi + 1], gen |-> gen] }

\* As add_segment, but a segment is appended with its first cell.
add_whole_segment(complete_path, segment_path, current_cell, next_cell) ==
    IF segment_path = None
    THEN (IF complete_path = <<>> THEN <<current_cell>> ELSE complete_path) \o <<next_cell>>
    ELSE complete_path \o segment_path

\* generate_complete_path lines 224-243: what one segment adds.
add_segment(complete_path, segment_path, current_cell, next_cell) ==
    IF segment_path = None
    THEN (IF complete_path = <<>> THEN <<current_cell>> ELSE complete_path) \o <<next_cell>>
    ELSE IF complete_path = <<>> THEN segment_path
    ELSE complete_path \o Tail(segment_path)

RECURSIVE add_segments(_, _, _)
\* generate_complete_path lines 219-243: the loop, from segment i on.
add_segments(gen, i, complete_path) ==
    IF i > Len(gen.visiting_order) - 1
    THEN { [complete_path |-> complete_path, gen |-> gen] }
    ELSE LET current_poi == gen.visiting_order[i]
             next_poi == gen.visiting_order[i + 1]
         IN  UNION { add_segments(o.gen, i + 1,
                                  add_segment(complete_path, o.path,
                                              gen.poi_coords[current_poi + 1],
                                              gen.poi_coords[next_poi + 1])) :
                     o \in get_path_between_pois(gen, current_poi, next_poi) }

\* generate_complete_path lines 245-252: the return to the first POI.
add_return_path(o) ==
    LET start_poi == o.gen.visiting_order[1]
        end_poi == o.gen.visiting_order[Len(o.gen.visiting_order)]
    IN  { [complete_path |-> IF r.path # None /\ Len(r.path) > 1
                             THEN o.complete_path \o Tail(r.path)
                             ELSE o.complete_path,
           gen |-> r.gen] :
          r \in get_path_between_pois(o.gen, end_poi, start_poi) }

\* generate_complete_path, lines 197-255: the outcomes of one call, each the
\* path returned and the generator after the call.
generate_complete_path(gen, include_return_to_start) ==
    IF Len(gen.visiting_order) = 0
    THEN { [complete_path |-> <<>>, gen |-> gen] }
    ELSE IF Len(gen.visiting_order) = 1
    THEN { [complete_path |-> <<gen.poi_coords[gen.visiting_order[1] + 1]>>, gen |-> gen] }
    ELSE LET segments == add_segments(gen, 1, <<>>) IN
         IF include_return_to_start
         THEN UNION { add_return_path(o) : o \in segments }
         ELSE segments

\* As grid_to_real_world_coords, but the far corner of the cell.
grid_to_real_world_corner(grid_coords, edge_length) ==
    <<(2 * grid_coords[1] + 2) * edge_length, (2 * grid_coords[2] + 2) * edge_length>>

\* utils.grid_to_real_world_coords, (grid_coords + 0.5) * edge_length, in
\* half centimetres: a centre may lie half a centimetre off a whole one.
grid_to_real_world_coords(grid_coords, edge_length) ==
    <<(2 * grid_coords[1] + 1) * edge_length, (2 * grid_coords[2] + 1) * edge_length>>

\* int() of a coordinate given in half centimetres: it drops the fraction.
int(halves) == IF halves >= 0 THEN halves \div 2 ELSE -((-halves) \div 2)

\* serialization_utils.clean_path_coordinates.
clean_path_coordinates(path) ==
    [k \in DOMAIN path |-> <<int(path[k][1]), int(path[k][2])>>]

\* _optimize_shopping_path lines 194-222: the generator is created, the
\* complete path is generated and converted to physical coordinates.
GenerateCompletePath ==
    /\ pipe.pc = "assemble"
    /\ mode = "pipeline"
    /\ \E o \in generate_complete_path(pipe, pipe.include_return_to_start) :
          pipe' = [o.gen EXCEPT
                     !.pc = "distance",
                     !.complete_path = o.complete_path,
                     !.complete_path_real =
                        [k \in DOMAIN o.complete_path |->
                           grid_to_real_world_coords(o.complete_path[k],
                                                     pipe.layout.edge_length)]]
    /\ UNCHANGED storeVars

\* Line 224, calculate_total_distance (lines 319-340): the path is generated
\* again, without the return, and its steps are summed.
CalculateTotalDistance ==
    /\ pipe.pc = "distance"
    /\ \E o \in generate_complete_path(pipe, FALSE) :
          pipe' = [o.gen EXCEPT !.pc = "summary",
                                !.total_distance = path_length(o.complete_path)]
    /\ UNCHANGED storeVars

\* Lines 227-252: get_optimization_stats(), get_path_summary() (it generates
\* the path once itself and once more in calculate_total_distance), and the
\* cleaned response.
Respond ==
    /\ pipe.pc = "summary"
    /\ \E o1 \in generate_complete_path(pipe, FALSE) :
       \E o2 \in generate_complete_path(o1.gen, FALSE) :
          pipe' = [o2.gen EXCEPT
                     !.pc = "done",
                     !.response =
                        [success |-> TRUE,
                         total_distance |-> pipe.total_distance,
                         visiting_order |-> pipe.visiting_order,
                         complete_path |-> clean_path_coordinates(pipe.complete_path_real),
                         poi_count |-> Len(pipe.poi),
                         optimization_stats |->
                            [algorithm |-> pipe.solver_algorithm,
                             diagonal_movement |-> pipe.diagonal_movement,
                             paths_computed |-> pipe.stats.paths_computed,
                             paths_failed |-> pipe.stats.paths_failed,
                             paths_skipped_threshold |-> pipe.stats.paths_skipped_threshold],
                         path_summary |->
                            [total_path_points |-> Len(o1.complete_path),
                             total_distance |-> path_length(o2.complete_path),
                             fallback_pathfinding |-> o2.gen.fallback_stats]]]
    /\ UNCHANGED storeVars

PipeNext ==
    \/ GenerateGrid
    \/ CreateSolver
    \/ ComputePair
    \/ Solve
    \/ NearestNeighborStep
    \/ GenerateCompletePath
    \/ CalculateTotalDistance
    \/ Respond

\* One optimisation request from the layout it loaded to its response.
PipeSpec == InitPipe /\ [][PipeNext]_vars

(***************************************************************************)
(* Properties of the optimisation pipeline                                 *)
(***************************************************************************)
\* The mapper accepted the POIs of the request.
Mapped == pipe.pc \notin {"none", "map", "failed"}

\* C11: for every POI list the mapper accepts, the grid of generate_grid
\* holds code 1 at the cells the POIs map to and the code of the original
\* layout everywhere else; no cell of code -1 is changed; and the layout the
\* caller passed in is still the one it passed.
C11_GridDiffersOnlyAtPois ==
    Mapped =>
       LET rows == pipe.layout.shape[1]
           cols == pipe.layout.shape[2]
           e == pipe.layout.edge_length
           IsPoi(r, c) == \E i \in DOMAIN pipe.poi :
                             /\ e * r <= pipe.poi[i][1] /\ pipe.poi[i][1] < e * (r + 1)
                             /\ e * c <= pipe.poi[i][2] /\ pipe.poi[i][2] < e * (c + 1)
       IN  /\ Len(pipe.grid_with_poi) = rows * cols
           /\ \A r \in 0..(rows - 1), c \in 0..(cols - 1) :
                 pipe.grid_with_poi[r * cols + c + 1]
                    = IF IsPoi(r, c) THEN 1 ELSE pipe.layout.data[r * cols + c + 1]
           /\ \A k \in DOMAIN pipe.layout.data :
                 pipe.layout.data[k] = -1 => pipe.grid_with_poi[k] = -1
           /\ pipe.original_layout = pipe.layout
           /\ pipe.layout \in PipeLayouts

\* A POI was mapped onto a shelf cell, which now holds code 1, next to cells
\* that kept their code.
C11_Witness ==
    /\ pipe.pc = "solver"
    /\ \E k \in DOMAIN pipe.layout.data :
          pipe.layout.data[k] = 2 /\ pipe.grid_with_poi[k] = 1
    /\ \E k \in DOMAIN pipe.layout.data : pipe.grid_with_poi[k] = 0

StoredPaths ==
    { pipe.path_matrix[i][j] : i, j \in DOMAIN pipe.path_matrix } \ {None}

\* C14: no path that find_path returned and compute_all_paths (or the
\* fallback) stored in the path matrix passes through a cell that holds the
\* shelf code 2 or the obstacle code -1 in grid_with_poi.
C14_PathsAvoidShelvesAndObstacles ==
    \A path \in StoredPaths :
       \A k \in DOMAIN path :
          pipe.grid_with_poi[CellIndex(pipe.layout, path[k])] \notin {2, -1}

\* C15: every path in the path matrix begins at the cell of its start POI
\* and ends at the cell of its goal POI, each of its cells has a code >= 0
\* in grid_with_poi, and consecutive cells are 4-neighbours without diagonal
\* movement and 8-neighbours with it.
C15_PathsAreWalks ==
    \A i, j \in DOMAIN pipe.path_matrix :
       LET path == pipe.path_matrix[i][j]
           Abs(a) == IF a >= 0 THEN a ELSE -a
       IN  path # None =>
              /\ path[1] = pipe.poi_coords[i]
              /\ path[Len(path)] = pipe.poi_coords[j]
              /\ \A k \in DOMAIN path :
                    pipe.grid_with_poi[CellIndex(pipe.layout, path[k])] >= 0
              /\ \A k \in 1..(Len(path) - 1) :
                    LET dr == Abs(path[k + 1][1] - path[k][1])
                        dc == Abs(path[k + 1][2] - path[k][2])
                    IN  IF pipe.diagonal_movement
                        THEN dr <= 1 /\ dc <= 1 /\ dr + dc >= 1
                        ELSE dr + dc = 1

\* All pairs of three POIs have been computed, without diagonal movement,
\* around an obstacle: one stored path takes four steps.
C15_Witness ==
    /\ pipe.pc = "tsp"
    /\ ~pipe.diagonal_movement
    /\ Len(pipe.poi_coords) = 3
    /\ \E k \in DOMAIN pipe.grid_with_poi : pipe.grid_with_poi[k] = -1
    /\ \E path \in StoredPaths : Len(path) = 5

\* The cell of the k-th POI of the visiting order.
VisitedCell(k) == pipe.poi_coords[pipe.visiting_order[k] + 1]

\* C17: the path generate_complete_path returned begins at the cell of the
\* first POI of the visiting order; it ends at the cell of the last POI of
\* the order without the return to the start, and at the cell of the first
\* POI with it, wherever the return segment comes from.
C17_CompletePathEndpoints ==
    pipe.pc = "distance" =>
       /\ pipe.complete_path[1] = VisitedCell(1)
       /\ pipe.complete_path[Len(pipe.complete_path)]
             = IF pipe.include_return_to_start
               THEN VisitedCell(1)
               ELSE VisitedCell(Len(pipe.visiting_order))

\* C18: a request that names an algorithm the solver does not support does
\* not fail on that account, its solver is created and runs A*, and its
\* response has success = true and optimization_stats.algorithm = "astar".
C18_UnsupportedAlgorithmFallsBack ==
    pipe.algorithm \notin available_algorithms =>
       /\ pipe.pc = "failed" => pipe.error \in {"out of bounds", "conflicts with an obstacle"}
       /\ pipe.pc = "solver" => ENABLED CreateSolver
       /\ pipe.pc \in {"paths", "tsp", "nearest_neighbor", "assemble", "distance", "summary", "done"}
             => pipe.solver_algorithm = "astar"
       /\ pipe.pc = "done"
             => /\ pipe.response.success
                /\ pipe.response.optimization_stats.algorithm = "astar"

\* A request for "jps" was answered, with a path that A* computed.
C18_Witness ==
    /\ pipe.pc = "done"
    /\ pipe.algorithm = "jps"
    /\ pipe.response.success
    /\ pipe.stats.paths_computed > 0
    /\ Len(pipe.response.complete_path) > 2

\* C19: the points of complete_path in the response are, in order, the
\* centres ((r + 0.5) * edge, (c + 0.5) * edge) of the cells (r, c) of the
\* assembled path, for every edge length.  Twice a reported coordinate is
\* compared with the centre in half centimetres.
C19_ResponsePointsAreCentres ==
    pipe.pc = "done" =>
       /\ Len(pipe.response.complete_path) = Len(pipe.complete_path)
       /\ \A k \in DOMAIN pipe.complete_path :
             /\ 2 * pipe.response.complete_path[k][1]
                   = (2 * pipe.complete_path[k][1] + 1) * pipe.layout.edge_length
             /\ 2 * pipe.response.complete_path[k][2]
                   = (2 * pipe.complete_path[k][2] + 1) * pipe.layout.edge_length

(***************************************************************************)
(* Properties of update_svg_if_needed                                      *)
(***************************************************************************)
\* C20: update_svg_if_needed goes on to generate the SVG exactly when the
\* previous hash of the manager is absent or differs from the current hash,
\* or <current_hash>.svg does not exist; and a request answered 200 reports
\* svg_updated / generated_layout_svg true exactly when its call generated
\* the SVG, the SVG directory being untouched by a call that reports false.
C20_GeneratesIffNeeded ==
    [][\A w \in Workers :
          /\ (loc[w].pc = "o_svg" /\ loc'[w].pc # "o_svg")
                => LET current_hash == compute_layout_hash(loc[w].layout)
                       needed == \/ loc[w].previous_hash = None
                                 \/ loc[w].previous_hash # current_hash
                                 \/ svg[current_hash] = Absent
                   IN  /\ (loc'[w].pc = "generate") <=> needed
                       /\ svg' = svg
                       /\ ~needed => loc'[w].pc = "done" /\ ~loc'[w].result.svg_updated
          /\ (loc[w].pc # "done" /\ loc'[w].pc = "done" /\ loc'[w].result.status = 200)
                => /\ loc'[w].result.svg_updated <=> loc[w].pc = "generate"
                   /\ loc'[w].result.svg_updated
                         => svg'[loc'[w].result.layout_hash] # Absent
                   /\ ~loc'[w].result.svg_updated => svg' = svg]_vars

\* An optimisation request whose layout hashes to the stored hash generated
\* the SVG because the file was missing, and reported it.
C20_Witness ==
    \E w \in Workers :
       /\ loc[w].pc = "done"
       /\ loc[w].op = "optimize"
       /\ loc[w].result.status = 200
       /\ loc[w].result.svg_updated
       /\ compute_layout_hash(loc[w].layout) = loc[w].previous_hash

(***************************************************************************)
(* Properties of compute_all_paths                                         *)
(***************************************************************************)
\* The square of the distance between the cells of POIs i and j, in cells.
SquaredCellDistance(i, j) ==
    (pipe.poi_coords[i][1] - pipe.poi_coords[j][1]) * (pipe.poi_coords[i][1] - pipe.poi_coords[j][1])
    + (pipe.poi_coords[i][2] - pipe.poi_coords[j][2]) * (pipe.poi_coords[i][2] - pipe.poi_coords[j][2])

\* The distance between the cells of POIs i and j exceeds
\* distance_threshold_grid = distance_threshold / edge_length.
BeyondThreshold(i, j) ==
    SquaredCellDistance(i, j) * pipe.layout.edge_length * pipe.layout.edge_length
       > pipe.distance_threshold * pipe.distance_threshold

\* C21: when compute_all_paths has returned, each pair (i, i) has distance 0
\* and the path of the one POI cell; each pair i # j farther apart than the
\* threshold has no path and three times its Euclidean distance, no search
\* having run for it; each pair i # j within the threshold, at the threshold
\* included, was searched: it has a path from its start to its goal, or no
\* path and an infinite distance.
C21_PairsByThreshold ==
    pipe.pc = "tsp" =>
       /\ \A i, j \in DOMAIN pipe.poi_coords :
             IF i = j
             THEN /\ pipe.distance_matrix[i][j] = 0
                  /\ pipe.path_matrix[i][j] = <<pipe.poi_coords[i]>>
             ELSE IF BeyondThreshold(i, j)
             THEN /\ pipe.path_matrix[i][j] = None
                  /\ pipe.distance_matrix[i][j]
                        = 3 * euclidean_distance(pipe.poi_coords[i], pipe.poi_coords[j])
             ELSE \/ /\ pipe.path_matrix[i][j] # None
                     /\ pipe.path_matrix[i][j][1] = pipe.poi_coords[i]
                  \/ /\ pipe.path_matrix[i][j] = None
                     /\ pipe.distance_matrix[i][j] = Inf
       /\ pipe.stats.paths_computed + pipe.stats.paths_failed
             = Cardinality({ p \in (DOMAIN pipe.poi_coords) \X (DOMAIN pipe.poi_coords) :
                               p[1] # p[2] /\ ~BeyondThreshold(p[1], p[2]) })

\* Of three POIs one pair lies exactly at the threshold and was searched,
\* another lies beyond it and was skipped.
C21_Witness ==
    /\ pipe.pc = "tsp"
    /\ \E i, j \in DOMAIN pipe.poi_coords :
          /\ SquaredCellDistance(i, j) * pipe.layout.edge_length * pipe.layout.edge_length
                = pipe.distance_threshold * pipe.distance_threshold
          /\ pipe.path_matrix[i][j] # None
          /\ Len(pipe.path_matrix[i][j]) = 3
    /\ \E i, j \in DOMAIN pipe.poi_coords :
          BeyondThreshold(i, j) /\ pipe.distance_matrix[i][j] > 6000

\* C22: compute_all_paths goes through the whole batch whatever the single
\* searches give (no request fails in it, and each pair i # j gone through
\* has been counted once); every pair i # j ends as exactly one of computed
\* (path present), failed (no path, infinite distance) and skipped (no
\* path, finite distance); and the counters, as compute_all_paths keeps
\* them and as the response reports them, add up to N * (N - 1).
C22_BatchCompletesAndCounts ==
    LET n == Len(pipe.poi_coords)
        computed == { p \in (1..n) \X (1..n) :
                        p[1] # p[2] /\ pipe.path_matrix[p[1]][p[2]] # None }
        failed == { p \in (1..n) \X (1..n) :
                      /\ p[1] # p[2] /\ pipe.path_matrix[p[1]][p[2]] = None
                      /\ pipe.distance_matrix[p[1]][p[2]] = Inf }
        skipped == { p \in (1..n) \X (1..n) :
                       /\ p[1] # p[2] /\ pipe.path_matrix[p[1]][p[2]] = None
                       /\ pipe.distance_matrix[p[1]][p[2]] # Inf }
    IN
    /\ pipe.pc = "failed" => pipe.error \in {"out of bounds", "conflicts with an obstacle"}
    /\ pipe.pc = "paths" =>
          pipe.stats.paths_computed + pipe.stats.paths_failed
             + pipe.stats.paths_skipped_threshold
             = (pipe.i - 1) * n + (pipe.j - 1)
               - ((pipe.i - 1) + (IF pipe.j > pipe.i THEN 1 ELSE 0))
    /\ pipe.pc = "tsp" =>
          /\ Cardinality(computed) = pipe.stats.paths_computed
          /\ Cardinality(failed) = pipe.stats.paths_failed
          /\ Cardinality(skipped) = pipe.stats.paths_skipped_threshold
          /\ pipe.stats.paths_computed + pipe.stats.paths_failed
                + pipe.stats.paths_skipped_threshold = n * (n - 1)
    /\ pipe.pc = "done" =>
          pipe.response.optimization_stats.paths_computed
             + pipe.response.optimization_stats.paths_failed
             + pipe.response.optimization_stats.paths_skipped_threshold = n * (n - 1)

\* The batch of three POIs ended with a computed pair, a failed pair and a
\* skipped pair.
C22_Witness ==
    /\ pipe.pc = "tsp"
    /\ Len(pipe.poi_coords) = 3
    /\ pipe.stats.paths_computed > 0
    /\ pipe.stats.paths_failed > 0
    /\ pipe.stats.paths_skipped_threshold > 0

(***************************************************************************)
(* Properties of TSPSolver.solve                                           *)
(***************************************************************************)
\* C24: solve never raises, for fewer than two locations either; and when
\* the primary solver gave no route, what solve returns is the
\* nearest-neighbour tour, which starts at location 0.
C24_SolveFallsBackWithoutError ==
    /\ pipe.pc # "raised"
    /\ (pipe.pc = "assemble" /\ pipe.route # <<>>)
          => pipe.visiting_order = pipe.route /\ pipe.visiting_order[1] = 0

(***************************************************************************)
(* Properties of the matrices and of path assembly                         *)
(***************************************************************************)
\* C23: at every point of a request, after compute_all_paths and after the
\* assembly has cached fallback paths in the path matrix, each pair with a
\* path in the path matrix has, in the distance matrix, the sum of the
\* Euclidean step lengths of that path.
C23_DistanceIsPathLength ==
    \A i, j \in DOMAIN pipe.path_matrix :
       pipe.path_matrix[i][j] # None
          => pipe.distance_matrix[i][j] = path_length(pipe.path_matrix[i][j])

\* Location a is followed by location b in the tour: the path the matrix
\* holds for them once the path has been generated (a fallback path is in
\* it), or None where the generation made a direct connection.
MatrixPath(a, b) == pipe.path_matrix[a + 1][b + 1]

\* The k-th segment of the tour as generate_complete_path takes it.
TourSegment(k) ==
    LET path == MatrixPath(pipe.visiting_order[k], pipe.visiting_order[k + 1]) IN
    IF path # None THEN path ELSE <<VisitedCell(k), VisitedCell(k + 1)>>

RECURSIVE SegmentStart(_)
\* Where the first cell of the k-th segment lies in the complete path, each
\* segment starting on the last cell of the one before.
SegmentStart(k) ==
    IF k = 1 THEN 1 ELSE SegmentStart(k - 1) + Len(TourSegment(k - 1)) - 1

\* C25: in the path generate_complete_path returned, each segment starts on
\* the very cell the segment before ends on, so that the cell joining two
\* segments appears once (the return segment included when it has a path);
\* and inside each segment that comes from the path matrix or the fallback
\* consecutive cells are neighbours in the grid.
C25_SegmentsShareJoinCell ==
    pipe.pc = "distance" =>
       LET n == Len(pipe.visiting_order)
           return_path == IF pipe.include_return_to_start
                          THEN MatrixPath(pipe.visiting_order[n], pipe.visiting_order[1])
                          ELSE None
           Abs(a) == IF a >= 0 THEN a ELSE -a
           Adjacent(p, q) == /\ Abs(p[1] - q[1]) <= 1 /\ Abs(p[2] - q[2]) <= 1
                             /\ p # q
                             /\ ~pipe.diagonal_movement => p[1] = q[1] \/ p[2] = q[2]
       IN  /\ Len(pipe.complete_path)
                = SegmentStart(n) + (IF return_path = None THEN 0 ELSE Len(return_path) - 1)
           /\ \A k \in 1..(n - 1) :
                 /\ \A m \in DOMAIN TourSegment(k) :
                       pipe.complete_path[SegmentStart(k) + m - 1] = TourSegment(k)[m]
                 /\ MatrixPath(pipe.visiting_order[k], pipe.visiting_order[k + 1]) # None
                       => \A m \in SegmentStart(k)..(SegmentStart(k + 1) - 1) :
                             Adjacent(pipe.complete_path[m], pipe.complete_path[m + 1])
           /\ return_path # None
                 => /\ \A m \in DOMAIN return_path :
                          pipe.complete_path[SegmentStart(n) + m - 1] = return_path[m]
                    /\ \A m \in SegmentStart(n)..(Len(pipe.complete_path) - 1) :
                          Adjacent(pipe.complete_path[m], pipe.complete_path[m + 1])

\* A tour of three POIs was assembled from two segments of the path matrix
\* and a return segment, each of several cells.
C25_Witness ==
    /\ pipe.pc = "distance"
    /\ Len(pipe.visiting_order) = 3
    /\ pipe.include_return_to_start
    /\ pipe.fallback_stats.fallback_calls = 0
    /\ Len(TourSegment(1)) >= 2 /\ Len(TourSegment(2)) >= 2
    /\ Len(pipe.complete_path)
          = Len(TourSegment(1)) + Len(TourSegment(2)) - 1
            + Len(MatrixPath(pipe.visiting_order[3], pipe.visiting_order[1])) - 1

\* The segments of the tour, the return (numbered as the segment after the
\* last) included when requested, for which the path matrix holds no path.
SegmentsWithoutPath(path_matrix) ==
    LET n == Len(pipe.visiting_order) IN
    { k \in 1..(n - 1) :
         path_matrix[pipe.visiting_order[k] + 1][pipe.visiting_order[k + 1] + 1] = None }
    \cup { k \in {n} :
             /\ pipe.include_return_to_start
             /\ path_matrix[pipe.visiting_order[n] + 1][pipe.visiting_order[1] + 1] = None }

\* C26: generate_complete_path does not raise when a segment has no path in
\* the matrix and the fallback finds none: the path it returned holds the
\* cells of the two POIs of that segment one after the other, and
\* fallback_failures counts the segment; the path is never empty, for a
\* visiting order of a single POI either.
C26_DirectConnection ==
    /\ pipe.pc \in {"failed", "raised"}
          => pipe.error \in {"out of bounds", "conflicts with an obstacle"}
    /\ pipe.pc = "distance" =>
          /\ pipe.complete_path # <<>>
          /\ \A k \in 1..(Len(pipe.visiting_order) - 1) :
                k \in SegmentsWithoutPath(pipe.path_matrix)
                   => /\ pipe.complete_path[SegmentStart(k)] = VisitedCell(k)
                      /\ pipe.complete_path[SegmentStart(k) + 1] = VisitedCell(k + 1)
          /\ pipe.fallback_stats.fallback_failures
                = Cardinality(SegmentsWithoutPath(pipe.path_matrix))
          /\ \A o \in generate_complete_path(
                         [pipe EXCEPT !.visiting_order = <<0>>,
                                      !.poi_coords = <<pipe.poi_coords[1]>>,
                                      !.path_matrix = <<<<pipe.path_matrix[1][1]>>>>],
                         pipe.include_return_to_start) :
                o.complete_path = <<pipe.poi_coords[1]>>

\* Two POIs on either side of a wall were joined by a direct connection,
\* the fallback having failed.
C26_Witness ==
    /\ pipe.pc = "distance"
    /\ pipe.algorithm = "astar"
    /\ ~pipe.include_return_to_start
    /\ pipe.stats.paths_failed = 2
    /\ pipe.fallback_stats.fallback_calls = 1
    /\ pipe.fallback_stats.fallback_failures = 1
    /\ pipe.complete_path = <<VisitedCell(1), VisitedCell(2)>>

\* C27: the fallback of the assembly is A* without a threshold whatever the
\* algorithm of the request: a segment, the return included, is left
\* without a path after the generation only if A* finds no path between
\* its two POI cells.
C27_FallbackIsAStar ==
    pipe.pc = "distance" =>
       \A k \in SegmentsWithoutPath(pipe.path_matrix) :
          find_path(pipe.layout, pipe.grid_with_poi, VisitedCell(k),
                    VisitedCell(IF k = Len(pipe.visiting_order) THEN 1 ELSE k + 1),
                    "astar", pipe.diagonal_movement) = {}

(***************************************************************************)
(* Properties of the generated SVG                                         *)
(***************************************************************************)
\* C28: in every generated SVG the layer groups for background, obstacles,
\* shelves, zones, POIs and annotations come in this order in the document;
\* the POI layer comes after the zones layer.
C28_LayerOrder ==
    \A h \in Hashes :
       svg[h] # Absent =>
          LET Named(id) == id \in {"background-layer", "obstacles-layer", "shelves-layer",
                                   "zones-layer", "poi-layer", "annotations-layer"}
              Position(id) == CHOOSE k \in DOMAIN svg[h].layers : svg[h].layers[k] = id
          IN  /\ SelectSeq(svg[h].layers, Named)
                    = <<"background-layer", "obstacles-layer", "shelves-layer",
                        "zones-layer", "poi-layer", "annotations-layer">>
              /\ Position("zones-layer") < Position("poi-layer")

(***************************************************************************)
(* Properties of the fallback counters                                     *)
(***************************************************************************)
\* C29: in the response, fallback_calls of path_summary.fallback_pathfinding
\* is the number of segments of the tour, the return included when
\* requested, that had no path in the matrix compute_all_paths returned,
\* each counted once; and fallback_calls = fallback_successes +
\* fallback_failures.
C29_FallbackCallsCountSegments ==
    pipe.pc = "done" =>
       LET counters == pipe.response.path_summary.fallback_pathfinding IN
       /\ counters.fallback_calls
             = Cardinality(SegmentsWithoutPath(pipe.computed_path_matrix))
       /\ counters.fallback_calls
             = counters.fallback_successes + counters.fallback_failures

(***************************************************************************)
(* The arc costs of solve_with_ortools.  Three POIs lie in an open grid:   *)
(* the first two in its first row, the third walled in by obstacles, so    *)
(* that no path leads to it or from it.                                    *)
(***************************************************************************)
\* The side of the largest grid, in cells.
MaxGridSide == 512

\* int(1e6), the arc cost of a pair at an infinite distance.
UnreachableCost == 1000000

\* Columns of the first row where the first two POIs may lie.
PoiColumns == {0, 1, 20, 21, 100, 333, 334, 400, MaxGridSide - 1}

\* distance_threshold_grid: 2000 cm in cells of 100 cm, 40 cm and 4 cm.
GridThresholds == {20, 50, 500}

\* compute_all_paths for the first two POIs at columns a and b with
\* threshold t, and the walled-in third: a pair of the row beyond the
\* threshold gets three times its distance, a pair within it the length of
\* the straight path along the row, a pair with the third POI infinity.
RowDistanceMatrix(a, b, t) ==
    LET d == euclidean_distance(<<0, a>>, <<0, b>>)
        row == IF d > 1000 * t THEN 3 * d ELSE d
    IN  << <<0, row, Inf>>, <<row, 0, Inf>>, <<Inf, Inf, 0>> >>

\* distance_callback, lines 122-134: int(1e6) for a distance that is not
\* finite, else int(distance * 1000); distances are kept in thousandths.
distance_callback(distance_matrix, from_node, to_node) ==
    IF ~isfinite(distance_matrix[from_node + 1][to_node + 1])
    THEN UnreachableCost
    ELSE distance_matrix[from_node + 1][to_node + 1]

InitCost ==
    /\ EmptyStore /\ Quiet /\ mode = "cost"
    /\ \E a \in PoiColumns, b \in PoiColumns, t \in GridThresholds :
          /\ a # b
          /\ pipe = [NoPipe EXCEPT !.pc = "ortools",
                                !.poi_coords = << <<0, a>>, <<0, b>>,
                                                  <<MaxGridSide - 1, MaxGridSide - 1>> >>,
                                !.distance_matrix = RowDistanceMatrix(a, b, t)]

\* Lines 117-135: the routing model asks the callback for the cost of the
\* arcs.
RegisterTransitCallback ==
    /\ pipe.pc = "ortools"
    /\ mode = "cost"
    /\ pipe' = [pipe EXCEPT
                  !.pc = "search",
                  !.arc_cost = [i \in 1..3 |-> [j \in 1..3 |->
                                  distance_callback(pipe.distance_matrix, i - 1, j - 1)]]]
    /\ UNCHANGED storeVars

CostSpec == InitCost /\ [][RegisterTransitCallback]_vars

====
